---- MODULE Spec2Model ----
(***************************************************************************)
(* Model of the experiment lifecycle code of phenix/web (common.go):       *)
(* startExperiment and stopExperiment, the goroutines startExperiment      *)
(* spawns, and the package-level cancelers / waiters registry.             *)
(*                                                                         *)
(* Every lifecycle call is one element of Calls.  A call has a main thread *)
(* (pc), and a Start call has the goroutine of line 53 (gpc), the log      *)
(* drainer of line 76 (dpc), the delayed-error listener of line 91 (lpc)   *)
(* and the periodic app runner scheduled at line 140 (rpc).                *)
(***************************************************************************)
EXTENDS Integers, Sequences, FiniteSets, TLC

\* Bounds of the model.
MaxCalls == 3        \* lifecycle calls issued in one behaviour
MaxPolls == 3        \* progress probes made in one behaviour
MaxDelayed == 2      \* delayed errors delivered in one behaviour
MaxProgress == 1     \* probe readings are k / MaxProgress, k in 0..MaxProgress

Calls == 1..(MaxCalls + 1)
Names == {"exp1", "exp2"}
VMs == {"vm1"}
Readings == 0..MaxProgress

\* An error delivered on the delayed-error channel: a DelayedVMError
\* carrying its VM, or an error of any other kind.
DelayedErrs == {<<"DelayedVMError", v>> : v \in VMs} \cup {<<"other", "">>}

\* The scenarios explored.  Each gives the names the callers use and the
\* number of lifecycle calls issued, of progress probes made and of delayed
\* errors delivered in one behaviour: concurrent calls on two names; a longer
\* sequence of calls on one name; two calls with probes; two calls with
\* delayed errors.
Scenarios ==
  { [names |-> Names, calls |-> MaxCalls - 1, polls |-> 0, delayed |-> 0],
    [names |-> {"exp1"}, calls |-> MaxCalls, polls |-> 0, delayed |-> 0],
    [names |-> {"exp1"}, calls |-> 2, polls |-> MaxPolls, delayed |-> 0],
    [names |-> {"exp1"}, calls |-> 2, polls |-> 0, delayed |-> MaxDelayed] }

\* A sequence of calls on one name that is one call longer.
LongRun == [names |-> {"exp1"}, calls |-> MaxCalls + 1, polls |-> 0, delayed |-> 0]

NoCall == [kind |-> "none", name |-> ""]
NoRet == [body |-> "pending", err |-> "pending"]
NoWG == 0

VARIABLES
  env,        \* the scenario of the behaviour: names used and event budgets
  call,       \* call[c]: kind ("start" / "stop") and name of call c
  pc,         \* pc[c]: position of the calling thread of call c
  ret,        \* ret[c]: ([]byte, error) returned by call c
  lock,       \* cache lock table: lock[n]
  cancelers,  \* cancelers[n]: sequence of cancel handles (absent key = <<>>)
  waiters,    \* waiters[n]: the call whose WaitGroup is registered, or NoWG
  cancelled,  \* set of cancel handles that have been invoked
  wg,         \* wg[c]: counter of the WaitGroup declared by call c (line 137)
  gpc,        \* gpc[c]: position of the goroutine of line 53
  derr,       \* derr[c]: outcome of experiment.Start in call c
  smsg,       \* smsg[c]: err field of the result the goroutine is sending
  lpc,        \* lpc[c]: delayed-error listener (line 91)
  dpc,        \* dpc[c]: log drainer (line 76)
  rpc,        \* rpc[c]: periodic app runner (app.PeriodicallyRunApps)
  delivered,  \* delivered[c]: errors received from ch by the listener
  errBcast,   \* errBcast[c]: resource-scoped error broadcasts of the listener
  progress,   \* progress[c]: the local variable progress (line 116)
  readings,   \* readings[c]: probe readings successfully obtained
  emitted,    \* emitted[c]: percent values of the progress broadcasts
  probeErrs,  \* probeErrs[c]: polls in which mm.GetLaunchProgress failed
  trace       \* trace[c]: broadcasts and collaborator calls of the calling thread

vars == <<env, call, pc, ret, lock, cancelers, waiters, cancelled, wg, gpc, derr,
          smsg, lpc, dpc, rpc, delivered, errBcast, progress, readings,
          emitted, probeErrs, trace>>

taskVars == <<gpc, derr, smsg, lpc, dpc, rpc, delivered, errBcast>>
progressVars == <<progress, readings, emitted, probeErrs>>
registryVars == <<cancelers, waiters, cancelled, wg>>

----------------------------------------------------------------------------
\* Helpers

Max(a, b) == IF a > b THEN a ELSE b

RECURSIVE SeqMax(_)
SeqMax(s) == IF s = <<>> THEN 0 ELSE Max(Head(s), SeqMax(Tail(s)))

RECURSIVE SeqSum(_)
SeqSum(s) == IF s = <<>> THEN 0 ELSE Head(s) + SeqSum(Tail(s))

Range(s) == {s[i] : i \in 1..Len(s)}

CountOf(s, x) == Cardinality({i \in 1..Len(s) : s[i] = x})

\* Number of polls / delayed errors so far in the behaviour.
Polls == SeqSum([c \in Calls |-> Len(readings[c]) + probeErrs[c]])
Delayed == SeqSum([c \in Calls |-> Len(delivered[c])])

\* Call c has been issued and has not returned.
InFlight(c) == pc[c] \notin {"idle", "done"}

\* Calls are issued in the order of their identifiers.
NextCall(c) ==
  /\ c <= env.calls
  /\ pc[c] = "idle"
  /\ \A d \in Calls : d < c => pc[d] # "idle"

----------------------------------------------------------------------------
\* Collaborators

\* cache.LockExperimentForStarting / LockExperimentForStopping: acquire(name,
\* intent) fails with Conflict if any lock is held for the name.
acquire(lk, n, intent) ==
  IF lk[n] = "Free"
    THEN [ok |-> TRUE, lock |-> [lk EXCEPT ![n] = intent]]
    ELSE [ok |-> FALSE, lock |-> lk]

LockExperimentForStarting(lk, n) == acquire(lk, n, "LockedForStarting")

LockExperimentForStopping(lk, n) == acquire(lk, n, "LockedForStopping")

\* cache.UnlockExperiment: idempotent, clears any held lock for the name.
UnlockExperiment(lk, n) == [lk EXCEPT ![n] = "Free"]

\* broker.Broadcast of a resource "experiment" with the given status by the
\* calling thread of call c.
Broadcast(tr, c, status) == [tr EXCEPT ![c] = Append(@, status)]

\* A collaborator call made by the calling thread of call c.
Invoke(tr, c, what) == [tr EXCEPT ![c] = Append(@, what)]

----------------------------------------------------------------------------
\* No call has been issued: the lock table and the registry are empty.
Quiescent ==
  /\ call = [c \in Calls |-> NoCall]
  /\ pc = [c \in Calls |-> "idle"]
  /\ ret = [c \in Calls |-> NoRet]
  /\ lock = [n \in Names |-> "Free"]
  /\ cancelers = [n \in Names |-> <<>>]
  /\ waiters = [n \in Names |-> NoWG]
  /\ cancelled = {}
  /\ wg = [c \in Calls |-> 0]
  /\ gpc = [c \in Calls |-> "none"]
  /\ derr = [c \in Calls |-> "none"]
  /\ smsg = [c \in Calls |-> "none"]
  /\ lpc = [c \in Calls |-> "none"]
  /\ dpc = [c \in Calls |-> "none"]
  /\ rpc = [c \in Calls |-> "none"]
  /\ delivered = [c \in Calls |-> <<>>]
  /\ errBcast = [c \in Calls |-> <<>>]
  /\ progress = [c \in Calls |-> 0]
  /\ readings = [c \in Calls |-> <<>>]
  /\ emitted = [c \in Calls |-> <<>>]
  /\ probeErrs = [c \in Calls |-> 0]
  /\ trace = [c \in Calls |-> <<>>]

Init == env \in Scenarios /\ Quiescent

LongInit == env \in Scenarios \cup {LongRun} /\ Quiescent

----------------------------------------------------------------------------
\* startExperiment, calling thread

\* The error returned when the lock is not acquired (lines 34-35, 199-200).
ConflictRet == [body |-> "nil", err |-> "Conflict"]

\* Mutant of lockFailed: the error of the lock call is ignored.
lockFailed_never(r) == FALSE

\* `if err := cache.LockExperimentFor...(name); err != nil` (lines 33, 198).
lockFailed(r) == ~r.ok

\* Mutant of deferredUnlock: the unlock is not deferred, so no exit path
\* releases the lock.
deferredUnlock_missing(lk, n) == lk

\* defer cache.UnlockExperiment(name) (lines 38, 203): runs when the call
\* that acquired the lock returns.
deferredUnlock(lk, n) == UnlockExperiment(lk, n)

\* Mutant of StartLock: the unlock is deferred before the lock is tried,
\* so that a rejected call releases the lock of the name.
StartLock_DeferFirst(c, n) ==
  /\ NextCall(c)
  /\ call' = [call EXCEPT ![c] = [kind |-> "start", name |-> n]]
  /\ LET r == LockExperimentForStarting(lock, n) IN
       IF lockFailed(r)
         THEN /\ ret' = [ret EXCEPT ![c] = ConflictRet]
              /\ pc' = [pc EXCEPT ![c] = "done"]
              /\ lock' = deferredUnlock(lock, n)
              /\ UNCHANGED <<trace, gpc>>
         ELSE /\ lock' = r.lock
              /\ trace' = Broadcast(trace, c, "starting")
              /\ gpc' = [gpc EXCEPT ![c] = "g_register"]
              /\ pc' = [pc EXCEPT ![c] = "s_loop"]
              /\ UNCHANGED ret
  /\ UNCHANGED <<env, registryVars, derr, smsg, lpc, dpc, rpc, delivered, errBcast,
                 progressVars>>

\* Lines 32-53 and 116-117: lock or return Conflict; broadcast `starting`;
\* make the status channel; spawn the goroutine; progress := 0.
StartLock(c, n) ==
  /\ NextCall(c)
  /\ call' = [call EXCEPT ![c] = [kind |-> "start", name |-> n]]
  /\ LET r == LockExperimentForStarting(lock, n) IN
       IF lockFailed(r)
         THEN /\ ret' = [ret EXCEPT ![c] = ConflictRet]
              /\ pc' = [pc EXCEPT ![c] = "done"]
              /\ UNCHANGED <<lock, trace, gpc>>
         ELSE /\ lock' = r.lock
              /\ trace' = Broadcast(trace, c, "starting")
              /\ gpc' = [gpc EXCEPT ![c] = "g_register"]
              /\ pc' = [pc EXCEPT ![c] = "s_loop"]
              /\ UNCHANGED ret
  /\ UNCHANGED <<env, registryVars, derr, smsg, lpc, dpc, rpc, delivered, errBcast,
                 progressVars>>

\* The goroutine is blocked in a send on the status channel.
StatusReady(c) == gpc[c] \in {"g_send_err", "g_send"}

\* Mutant of newProgress: the latest reading is broadcast as it is.
newProgress_last(cur, p) == p

\* Lines 174-176: the running maximum.
newProgress(cur, p) == IF p > cur THEN p ELSE cur

\* Mutant of StartPoll: an error of the probe aborts the Start.
StartPoll_AbortOnError(c, ok, p) ==
  /\ pc[c] = "s_loop"
  /\ ~StatusReady(c)
  /\ Polls < env.polls
  /\ IF ~ok
       THEN /\ probeErrs' = [probeErrs EXCEPT ![c] = @ + 1]
            /\ trace' = Broadcast(trace, c, "errorStarting")
            /\ ret' = [ret EXCEPT ![c] = [body |-> "nil", err |-> "BadRequest"]]
            /\ lock' = deferredUnlock(lock, call[c].name)
            /\ pc' = [pc EXCEPT ![c] = "done"]
            /\ UNCHANGED <<progress, readings, emitted>>
       ELSE /\ readings' = [readings EXCEPT ![c] = Append(@, p)]
            /\ progress' = [progress EXCEPT ![c] = newProgress(@, p)]
            /\ emitted' = [emitted EXCEPT ![c] = Append(@, progress'[c])]
            /\ trace' = Broadcast(trace, c, "progress")
            /\ UNCHANGED <<probeErrs, pc, ret, lock>>
  /\ UNCHANGED <<env, call, registryVars, taskVars>>

\* Lines 167-193, the default case of the select: one poll of the probe.
\* ok = FALSE is an error of mm.GetLaunchProgress (logged, continue).
StartPoll(c, ok, p) ==
  /\ pc[c] = "s_loop"
  /\ ~StatusReady(c)
  /\ Polls < env.polls
  /\ IF ~ok
       THEN /\ probeErrs' = [probeErrs EXCEPT ![c] = @ + 1]
            /\ UNCHANGED <<progress, readings, emitted, trace>>
       ELSE /\ readings' = [readings EXCEPT ![c] = Append(@, p)]
            /\ progress' = [progress EXCEPT ![c] = newProgress(@, p)]
            /\ emitted' = [emitted EXCEPT ![c] = Append(@, progress'[c])]
            /\ trace' = Broadcast(trace, c, "progress")
            /\ UNCHANGED probeErrs
  /\ UNCHANGED <<env, call, pc, ret, lock, registryVars, taskVars>>

\* Mutant of statusFailed: s.err is not examined.
statusFailed_never(m) == FALSE

\* `if s.err != nil` (line 122).
statusFailed(m) == m = "err"

\* Mutant of StartRecvStatus: the failure is returned as soon as the
\* goroutine has seen the error of experiment.Start, before lines 63-64 ran.
StartRecvStatus_ReturnEarly(c) ==
  /\ pc[c] = "s_loop"
  /\ StatusReady(c) \/ gpc[c] = "g_cleanup"
  /\ IF gpc[c] = "g_cleanup"
       THEN /\ trace' = Broadcast(trace, c, "errorStarting")
            /\ ret' = [ret EXCEPT ![c] = [body |-> "nil", err |-> "BadRequest"]]
            /\ lock' = deferredUnlock(lock, call[c].name)
            /\ pc' = [pc EXCEPT ![c] = "done"]
            /\ UNCHANGED <<gpc, smsg>>
       ELSE /\ gpc' = [gpc EXCEPT ![c] =
                        IF @ = "g_send_err" THEN "g_send" ELSE "g_exit"]
            /\ smsg' = [smsg EXCEPT ![c] =
                         IF gpc[c] = "g_send_err" THEN "second" ELSE "none"]
            /\ IF statusFailed(smsg[c])
                 THEN /\ trace' = Broadcast(trace, c, "errorStarting")
                      /\ ret' = [ret EXCEPT ![c] =
                                   [body |-> "nil", err |-> "BadRequest"]]
                      /\ lock' = deferredUnlock(lock, call[c].name)
                      /\ pc' = [pc EXCEPT ![c] = "done"]
                 ELSE /\ pc' = [pc EXCEPT ![c] = "s_register"]
                      /\ UNCHANGED <<trace, ret, lock>>
  /\ UNCHANGED <<env, call, registryVars, derr, lpc, dpc, rpc, delivered, errBcast,
                 progressVars>>

\* Lines 121-131, case s := <-status: the goroutine's send completes; on
\* s.err != nil broadcast `errorStarting` and return BadRequest.  A
\* goroutine whose send at line 66 completed falls through to lines 111-113
\* and blocks in a second send; one whose send at line 113 completed exits.
StartRecvStatus(c) ==
  /\ pc[c] = "s_loop"
  /\ StatusReady(c)
  /\ gpc' = [gpc EXCEPT ![c] = IF @ = "g_send_err" THEN "g_send" ELSE "g_exit"]
  /\ smsg' = [smsg EXCEPT ![c] = IF gpc[c] = "g_send_err" THEN "second" ELSE "none"]
  /\ IF statusFailed(smsg[c])
       THEN /\ trace' = Broadcast(trace, c, "errorStarting")
            /\ ret' = [ret EXCEPT ![c] = [body |-> "nil", err |-> "BadRequest"]]
            /\ lock' = deferredUnlock(lock, call[c].name)
            /\ pc' = [pc EXCEPT ![c] = "done"]
       ELSE /\ pc' = [pc EXCEPT ![c] = "s_register"]
            /\ UNCHANGED <<trace, ret, lock>>
  /\ UNCHANGED <<env, call, registryVars, derr, lpc, dpc, rpc, delivered, errBcast,
                 progressVars>>

\* Lines 134-138: register the cancel handle of the app context and the
\* WaitGroup of this call.
StartRegisterApps(c) ==
  /\ pc[c] = "s_register"
  /\ cancelers' = [cancelers EXCEPT ![call[c].name] = Append(@, <<c, "apps">>)]
  /\ waiters' = [waiters EXCEPT ![call[c].name] = c]
  /\ pc' = [pc EXCEPT ![c] = "s_schedule"]
  /\ UNCHANGED <<env, call, ret, lock, cancelled, wg, taskVars, progressVars, trace>>

\* Mutant of StartScheduleApps: a scheduling error fails the Start.
StartScheduleApps_Fatal(c, ok) ==
  /\ pc[c] = "s_schedule"
  /\ IF ok
       THEN /\ wg' = [wg EXCEPT ![c] = @ + 1]
            /\ rpc' = [rpc EXCEPT ![c] = "running"]
            /\ pc' = [pc EXCEPT ![c] = "s_marshal"]
            /\ UNCHANGED <<cancelers, waiters, cancelled, trace, ret, lock>>
       ELSE /\ cancelled' = cancelled \cup {<<c, "apps">>}
            /\ cancelers' = [cancelers EXCEPT ![call[c].name] = <<>>]
            /\ waiters' = [waiters EXCEPT ![call[c].name] = NoWG]
            /\ trace' = Broadcast(trace, c, "errorStarting")
            /\ ret' = [ret EXCEPT ![c] = [body |-> "nil", err |-> "BadRequest"]]
            /\ lock' = deferredUnlock(lock, call[c].name)
            /\ pc' = [pc EXCEPT ![c] = "done"]
            /\ UNCHANGED <<wg, rpc>>
  /\ UNCHANGED <<env, call, gpc, derr, smsg, lpc, dpc, delivered, errBcast,
                 progressVars>>

\* Lines 140-146: app.PeriodicallyRunApps(ctx, &wg, s.exp).  On success the
\* runner is counted in wg and runs until ctx is cancelled; on error the
\* handle is cancelled and both registry entries of the name are deleted.
StartScheduleApps(c, ok) ==
  /\ pc[c] = "s_schedule"
  /\ IF ok
       THEN /\ wg' = [wg EXCEPT ![c] = @ + 1]
            /\ rpc' = [rpc EXCEPT ![c] = "running"]
            /\ UNCHANGED <<cancelers, waiters, cancelled>>
       ELSE /\ cancelled' = cancelled \cup {<<c, "apps">>}
            /\ cancelers' = [cancelers EXCEPT ![call[c].name] = <<>>]
            /\ waiters' = [waiters EXCEPT ![call[c].name] = NoWG]
            /\ UNCHANGED <<wg, rpc>>
  /\ pc' = [pc EXCEPT ![c] = "s_marshal"]
  /\ UNCHANGED <<env, call, ret, lock, gpc, derr, smsg, lpc, dpc, delivered,
                 errBcast, progressVars, trace>>

\* Mutant of successBroadcasts: a redundant progress tick follows `start`.
successBroadcasts_tick(tr, c) ==
  Broadcast(Broadcast(tr, c, "start"), c, "progress")

\* Lines 160-164: the broadcast of a successful start.
successBroadcasts(tr, c) == Broadcast(tr, c, "start")

\* Lines 148-166: vm.List, marshal; on a marshal error return Internal
\* without a broadcast, else broadcast `start` and return the body.
StartFinish(c, marshalOk) ==
  /\ pc[c] = "s_marshal"
  /\ IF marshalOk
       THEN /\ trace' = successBroadcasts(trace, c)
            /\ ret' = [ret EXCEPT ![c] = [body |-> "body", err |-> "nil"]]
       ELSE /\ ret' = [ret EXCEPT ![c] = [body |-> "nil", err |-> "Internal"]]
            /\ UNCHANGED trace
  /\ lock' = deferredUnlock(lock, call[c].name)
  /\ pc' = [pc EXCEPT ![c] = "done"]
  /\ UNCHANGED <<env, call, registryVars, taskVars, progressVars>>

----------------------------------------------------------------------------
\* startExperiment, the goroutine of lines 53-114

\* Lines 55-56: cancelers[name] = append(cancelers[name], cancel).
GRegister(c) ==
  /\ gpc[c] = "g_register"
  /\ cancelers' = [cancelers EXCEPT ![call[c].name] = Append(@, <<c, "start">>)]
  /\ gpc' = [gpc EXCEPT ![c] = "g_start"]
  /\ UNCHANGED <<env, call, pc, ret, lock, waiters, cancelled, wg, derr, smsg, lpc,
                 dpc, rpc, delivered, errBcast, progressVars, trace>>

\* Line 62 and lines 68-113: experiment.Start returns.  On an error the
\* goroutine goes on to lines 63-64.  On success it spawns the log drainer
\* and the delayed-error listener, calls experiment.Get (getOk) and blocks
\* in the send of result{exp, err} at line 113.
GDomainStart(c, ok, getOk) ==
  /\ gpc[c] = "g_start"
  /\ IF ok
       THEN /\ derr' = [derr EXCEPT ![c] = "nil"]
            /\ dpc' = [dpc EXCEPT ![c] = "running"]
            /\ lpc' = [lpc EXCEPT ![c] = "listening"]
            /\ smsg' = [smsg EXCEPT ![c] = IF getOk THEN "nil" ELSE "err"]
            /\ gpc' = [gpc EXCEPT ![c] = "g_send"]
       ELSE /\ getOk
            /\ derr' = [derr EXCEPT ![c] = "err"]
            /\ gpc' = [gpc EXCEPT ![c] = "g_cleanup"]
            /\ UNCHANGED <<dpc, lpc, smsg>>
  /\ UNCHANGED <<env, call, pc, ret, lock, registryVars, rpc, delivered,
                 errBcast, progressVars, trace>>

\* Lines 63-66: cancel(); delete(cancelers, name); then block in the send of
\* result{nil, err}.
GCleanup(c) ==
  /\ gpc[c] = "g_cleanup"
  /\ cancelled' = cancelled \cup {<<c, "start">>}
  /\ cancelers' = [cancelers EXCEPT ![call[c].name] = <<>>]
  /\ smsg' = [smsg EXCEPT ![c] = "err"]
  /\ gpc' = [gpc EXCEPT ![c] = "g_send_err"]
  /\ UNCHANGED <<env, call, pc, ret, lock, waiters, wg, derr, lpc, dpc, rpc,
                 delivered, errBcast, progressVars, trace>>

----------------------------------------------------------------------------
\* Background tasks of a successful domain start

\* Mutant of listenerBroadcast: errors.As is not consulted, every delayed
\* error is broadcast.
listenerBroadcast_all(bc, n, e) ==
  Append(bc, [type |-> "experiment/vm", id |-> <<n, e[2]>>, status |-> "error"])

\* Lines 97-103: the broadcasts of the listener for one received error.
listenerBroadcast(bc, n, e) ==
  IF e[1] = "DelayedVMError"
    THEN Append(bc, [type |-> "experiment/vm", id |-> <<n, e[2]>>,
                     status |-> "error"])
    ELSE bc

\* Lines 92-104: one iteration of `for err := range ch`.
ListenerRecv(c, e) ==
  /\ lpc[c] = "listening"
  /\ Delayed < env.delayed
  /\ delivered' = [delivered EXCEPT ![c] = Append(@, e)]
  /\ errBcast' = [errBcast EXCEPT ![c] = listenerBroadcast(@, call[c].name, e)]
  /\ UNCHANGED <<env, call, pc, ret, lock, registryVars, gpc, derr, smsg, lpc, dpc,
                 rpc, progressVars, trace>>

\* Lines 104-107: ch is closed, the range loop ends, close(done).
ListenerExit(c) ==
  /\ lpc[c] = "listening"
  /\ lpc' = [lpc EXCEPT ![c] = "exited"]
  /\ UNCHANGED <<env, call, pc, ret, lock, registryVars, gpc, derr, smsg, dpc, rpc,
                 delivered, errBcast, progressVars, trace>>

\* Lines 82-84: the log drainer sees done closed and returns.
DrainerExit(c) ==
  /\ dpc[c] = "running"
  /\ lpc[c] = "exited"
  /\ dpc' = [dpc EXCEPT ![c] = "exited"]
  /\ UNCHANGED <<env, call, pc, ret, lock, registryVars, gpc, derr, smsg, lpc, rpc,
                 delivered, errBcast, progressVars, trace>>

\* The periodic app runner observes the cancellation of its context and
\* exits, decrementing the WaitGroup it was given.
RunnerExit(c) ==
  /\ rpc[c] = "running"
  /\ <<c, "apps">> \in cancelled
  /\ rpc' = [rpc EXCEPT ![c] = "exited"]
  /\ wg' = [wg EXCEPT ![c] = @ - 1]
  /\ UNCHANGED <<env, call, pc, ret, lock, cancelers, waiters, cancelled, gpc, derr,
                 smsg, lpc, dpc, delivered, errBcast, progressVars, trace>>

----------------------------------------------------------------------------
\* stopExperiment

\* Mutant of StopLock: `stopping` is broadcast before the lock is tried.
StopLock_BroadcastFirst(c, n) ==
  /\ NextCall(c)
  /\ call' = [call EXCEPT ![c] = [kind |-> "stop", name |-> n]]
  /\ trace' = Broadcast(trace, c, "stopping")
  /\ LET r == LockExperimentForStopping(lock, n) IN
       IF lockFailed(r)
         THEN /\ ret' = [ret EXCEPT ![c] = ConflictRet]
              /\ pc' = [pc EXCEPT ![c] = "done"]
              /\ UNCHANGED lock
         ELSE /\ lock' = r.lock
              /\ pc' = [pc EXCEPT ![c] = "p_cancel"]
              /\ UNCHANGED ret
  /\ UNCHANGED <<env, registryVars, taskVars, progressVars>>

\* Lines 197-209: lock or return Conflict; broadcast `stopping`.
StopLock(c, n) ==
  /\ NextCall(c)
  /\ call' = [call EXCEPT ![c] = [kind |-> "stop", name |-> n]]
  /\ LET r == LockExperimentForStopping(lock, n) IN
       IF lockFailed(r)
         THEN /\ ret' = [ret EXCEPT ![c] = ConflictRet]
              /\ pc' = [pc EXCEPT ![c] = "done"]
              /\ UNCHANGED <<lock, trace>>
         ELSE /\ lock' = r.lock
              /\ trace' = Broadcast(trace, c, "stopping")
              /\ pc' = [pc EXCEPT ![c] = "p_cancel"]
              /\ UNCHANGED ret
  /\ UNCHANGED <<env, registryVars, taskVars, progressVars>>

\* Lines 211-216: if cancelers[name] is present, invoke every handle, then
\* wait if waiters[name] is present.
StopCancel(c) ==
  /\ pc[c] = "p_cancel"
  /\ LET n == call[c].name IN
       IF cancelers[n] # <<>>
         THEN /\ cancelled' = cancelled \cup Range(cancelers[n])
              /\ trace' = Invoke(trace, c, "cancelAll")
              /\ pc' = [pc EXCEPT ![c] =
                          IF waiters[n] # NoWG THEN "p_wait" ELSE "p_clear"]
         ELSE /\ pc' = [pc EXCEPT ![c] = "p_clear"]
              /\ UNCHANGED <<cancelled, trace>>
  /\ UNCHANGED <<env, call, ret, lock, cancelers, waiters, wg, taskVars,
                 progressVars>>

\* Line 217: wg.Wait() returns when the counter is zero.
StopWait(c) ==
  /\ pc[c] = "p_wait"
  /\ wg[waiters[call[c].name]] = 0
  /\ trace' = Invoke(trace, c, "drained")
  /\ pc' = [pc EXCEPT ![c] = "p_clear"]
  /\ UNCHANGED <<env, call, ret, lock, registryVars, taskVars, progressVars>>

\* Mutant of StopClear: only cancelers[name] is deleted.
StopClear_KeepWaiters(c) ==
  /\ pc[c] = "p_clear"
  /\ cancelers' = [cancelers EXCEPT ![call[c].name] = <<>>]
  /\ trace' = Invoke(trace, c, "clear")
  /\ pc' = [pc EXCEPT ![c] = "p_domain"]
  /\ UNCHANGED <<env, call, ret, lock, waiters, cancelled, wg, taskVars,
                 progressVars>>

\* Lines 221-222: delete(cancelers, name); delete(waiters, name).
StopClear(c) ==
  /\ pc[c] = "p_clear"
  /\ cancelers' = [cancelers EXCEPT ![call[c].name] = <<>>]
  /\ waiters' = [waiters EXCEPT ![call[c].name] = NoWG]
  /\ trace' = Invoke(trace, c, "clear")
  /\ pc' = [pc EXCEPT ![c] = "p_domain"]
  /\ UNCHANGED <<env, call, ret, lock, cancelled, wg, taskVars, progressVars>>

\* Mutant of StopDomain: the terminal event is broadcast before
\* experiment.Stop is called.
StopDomain_BroadcastFirst(c, ok) ==
  /\ pc[c] = "p_domain"
  /\ IF ok
       THEN /\ trace' = Invoke(trace, c, "domainStop")
            /\ pc' = [pc EXCEPT ![c] = "p_finish"]
            /\ UNCHANGED <<ret, lock>>
       ELSE /\ trace' = Invoke(Broadcast(trace, c, "errorStopping"), c,
                               "domainStop")
            /\ ret' = [ret EXCEPT ![c] = [body |-> "nil", err |-> "BadRequest"]]
            /\ lock' = deferredUnlock(lock, call[c].name)
            /\ pc' = [pc EXCEPT ![c] = "done"]
  /\ UNCHANGED <<env, call, registryVars, taskVars, progressVars>>

\* Lines 224-233: experiment.Stop(name); on error broadcast `errorStopping`
\* and return BadRequest.
StopDomain(c, ok) ==
  /\ pc[c] = "p_domain"
  /\ IF ok
       THEN /\ trace' = Invoke(trace, c, "domainStop")
            /\ pc' = [pc EXCEPT ![c] = "p_finish"]
            /\ UNCHANGED <<ret, lock>>
       ELSE /\ trace' = Broadcast(Invoke(trace, c, "domainStop"), c,
                                  "errorStopping")
            /\ ret' = [ret EXCEPT ![c] = [body |-> "nil", err |-> "BadRequest"]]
            /\ lock' = deferredUnlock(lock, call[c].name)
            /\ pc' = [pc EXCEPT ![c] = "done"]
  /\ UNCHANGED <<env, call, registryVars, taskVars, progressVars>>

\* Outcomes of lines 235-257: the body is built and `stop` broadcast; the
\* marshaler fails; experiment.Get failed and left exp nil, so that *exp
\* at line 245 panics (the deferred unlock still runs).
StopOutcomes == {"ok", "marshalErr", "nilExp"}

StopFinish(c, o) ==
  /\ pc[c] = "p_finish"
  /\ IF o = "ok"
       THEN /\ trace' = Broadcast(trace, c, "stop")
            /\ ret' = [ret EXCEPT ![c] = [body |-> "body", err |-> "nil"]]
       ELSE /\ ret' = [ret EXCEPT ![c] =
                         IF o = "marshalErr"
                           THEN [body |-> "nil", err |-> "Internal"]
                           ELSE [body |-> "none", err |-> "panic"]]
            /\ UNCHANGED trace
  /\ lock' = deferredUnlock(lock, call[c].name)
  /\ pc' = [pc EXCEPT ![c] = "done"]
  /\ UNCHANGED <<env, call, registryVars, taskVars, progressVars>>

----------------------------------------------------------------------------
Next ==
  \/ \E c \in Calls, n \in env.names : StartLock(c, n)
  \/ \E c \in Calls, ok \in BOOLEAN, p \in Readings : StartPoll(c, ok, p)
  \/ \E c \in Calls : StartRecvStatus(c)
  \/ \E c \in Calls : StartRegisterApps(c)
  \/ \E c \in Calls, ok \in BOOLEAN : StartScheduleApps(c, ok)
  \/ \E c \in Calls, ok \in BOOLEAN : StartFinish(c, ok)
  \/ \E c \in Calls : GRegister(c)
  \/ \E c \in Calls, ok \in BOOLEAN, getOk \in BOOLEAN : GDomainStart(c, ok, getOk)
  \/ \E c \in Calls : GCleanup(c)
  \/ \E c \in Calls, e \in DelayedErrs : ListenerRecv(c, e)
  \/ \E c \in Calls : ListenerExit(c)
  \/ \E c \in Calls : DrainerExit(c)
  \/ \E c \in Calls : RunnerExit(c)
  \/ \E c \in Calls, n \in env.names : StopLock(c, n)
  \/ \E c \in Calls : StopCancel(c)
  \/ \E c \in Calls : StopWait(c)
  \/ \E c \in Calls : StopClear(c)
  \/ \E c \in Calls, ok \in BOOLEAN : StopDomain(c, ok)
  \/ \E c \in Calls, o \in StopOutcomes : StopFinish(c, o)

Spec == Init /\ [][Next]_vars

\* The same program with the longer sequence of calls among its scenarios.
LongSpec == LongInit /\ [][Next]_vars

\* The steps of the calling thread of a startExperiment call, and of the
\* goroutine it spawns at line 53.
StartThread(c) ==
  \/ \E ok \in BOOLEAN, p \in Readings : StartPoll(c, ok, p)
  \/ StartRecvStatus(c)
  \/ StartRegisterApps(c)
  \/ \E ok \in BOOLEAN : StartScheduleApps(c, ok)
  \/ \E ok \in BOOLEAN : StartFinish(c, ok)

StartGoroutine(c) ==
  \/ GRegister(c)
  \/ \E ok \in BOOLEAN, getOk \in BOOLEAN : GDomainStart(c, ok, getOk)
  \/ GCleanup(c)

\* The Go scheduler runs every runnable goroutine, and every call of a
\* collaborator made by startExperiment returns: a thread of a Start that
\* can take a step eventually takes one.
FairSpec ==
  /\ Init /\ [][Next]_vars
  /\ \A c \in Calls : WF_vars(StartThread(c)) /\ WF_vars(StartGoroutine(c))

----------------------------------------------------------------------------
\* Vocabulary of the properties

IsStart(c) == call[c].kind = "start"
IsStop(c) == call[c].kind = "stop"
Returned(c) == pc[c] = "done"
Conflicted(c) == ret[c].err = "Conflict"
\* Call c acquired the lock of its name.
Acquired(c) == pc[c] # "idle" /\ ~Conflicted(c)
NameOf(c) == call[c].name

StartTerminals == {"start", "errorStarting"}
StopTerminals == {"stop", "errorStopping"}
TerminalCount(c) ==
  Cardinality({i \in 1..Len(trace[c]) :
                 trace[c][i] \in StartTerminals \cup StopTerminals})

\* A periodic app runner scheduled for name n is running.
RunnerRunning(n) == \E d \in Calls : NameOf(d) = n /\ rpc[d] = "running"

----------------------------------------------------------------------------
\* C1.  Mutual exclusion per experiment name: at most one Start or Stop call
\* per name is in flight; a call returns Conflict exactly when another call
\* for the same name is in flight at the moment it is issued (so a call
\* issued after the earlier one returned, or for another name, acquires the
\* lock and proceeds).
C1_OnePerName ==
  \A c, d \in Calls :
    (c # d /\ InFlight(c) /\ InFlight(d)) => NameOf(c) # NameOf(d)

C1_ConflictIffInFlight ==
  \A c \in Calls :
    (pc[c] = "idle" /\ pc'[c] # "idle") =>
      (Conflicted(c)' <=>
         \E d \in Calls \ {c} : InFlight(d) /\ NameOf(d) = call'[c].name)

C1_MutualExclusion == []C1_OnePerName /\ [][C1_ConflictIffInFlight]_vars

\* A call was rejected, and a call issued after an earlier call for the same
\* name had returned acquired the lock.
C1_Witness ==
  \E a, b, c \in Calls :
    /\ a < b /\ b < c
    /\ NameOf(a) = NameOf(b) /\ NameOf(b) = NameOf(c)
    /\ Acquired(a) /\ Returned(a)
    /\ Conflicted(b)
    /\ Acquired(c)

----------------------------------------------------------------------------
\* C2.  Lock release on every path: whenever no Start or Stop call for a
\* name is in flight, the lock of the name is Free; so a call that acquired
\* the lock has released it when it has returned, whatever its outcome.
C2_LockReleased ==
  \A n \in Names :
    (\A c \in Calls : NameOf(c) = n => ~InFlight(c)) => lock[n] = "Free"

\* Calls have returned a domain error, a serialization error and a success,
\* and the lock is Free.
C2_Witness ==
  \E a, b, c \in Calls :
    /\ Returned(a) /\ ret[a].err = "BadRequest"
    /\ Returned(b) /\ ret[b].err = "Internal"
    /\ Returned(c) /\ ret[c].err = "nil"
    /\ \A n \in Names : lock[n] = "Free"

----------------------------------------------------------------------------
\* C3.  Drain before domain stop: stopExperiment never invokes
\* experiment.Stop for a name while a periodic app runner scheduled for that
\* name is still running.
C3_DrainBeforeDomainStop ==
  [][\A c \in Calls :
       (pc[c] = "p_domain" /\ pc'[c] # "p_domain") =>
         ~RunnerRunning(NameOf(c))]_vars

----------------------------------------------------------------------------
\* C4.  Progress monotonicity: within one Start call the broadcast progress
\* values are non-decreasing, the i-th broadcast value is the maximum of the
\* first i readings obtained during that call, and the running maximum of a
\* call depends on the readings of that call only.
C4_ProgressMonotone ==
  \A c \in Calls :
    /\ Len(emitted[c]) = Len(readings[c])
    /\ \A i \in 1..Len(emitted[c]) :
         /\ emitted[c][i] = SeqMax(SubSeq(readings[c], 1, i))
         /\ i > 1 => emitted[c][i - 1] <= emitted[c][i]
    /\ progress[c] = SeqMax(readings[c])
    /\ CountOf(trace[c], "progress") = Len(emitted[c])

\* A call obtained a lower reading after a higher one, and a later call
\* whose first reading is lower than the maximum of the earlier call
\* broadcast that reading.
C4_Witness ==
  \E c, d \in Calls :
    /\ c < d
    /\ readings[c] = <<1, 0>> /\ emitted[c] = <<1, 1>>
    /\ readings[d] = <<0>> /\ emitted[d] = <<0>>

----------------------------------------------------------------------------
\* C5.  Event ordering within one Start: in the broadcasts of a Start call
\* `starting` is the first and occurs once, every later broadcast is
\* `progress` or the terminal one, and a terminal broadcast is the last one
\* (no `progress` follows it).
C5_StartEventOrder ==
  \A c \in Calls :
    (IsStart(c) /\ Acquired(c)) =>
      /\ trace[c] # <<>> /\ trace[c][1] = "starting"
      /\ \A i \in 2..Len(trace[c]) :
           trace[c][i] \in {"progress"} \cup StartTerminals
      /\ \A i \in 1..Len(trace[c]) :
           trace[c][i] \in StartTerminals => i = Len(trace[c])

\* A Start broadcast starting, two progress events and start.
C5_Witness ==
  \E c \in Calls :
    /\ Returned(c)
    /\ trace[c] = <<"starting", "progress", "progress", "start">>

----------------------------------------------------------------------------
\* C6.  Step ordering within one Stop: `stopping` comes first, then the
\* cancellation of the handles and the drain wait, then the clearing of the
\* registry entry, then the domain stop call, then the terminal broadcast.
StopRank(x) ==
  CASE x = "stopping" -> 1
    [] x = "cancelAll" -> 2
    [] x = "drained" -> 3
    [] x = "clear" -> 4
    [] x = "domainStop" -> 5
    [] x \in StopTerminals -> 6
    [] OTHER -> 0

Has(c, x) == \E i \in 1..Len(trace[c]) : trace[c][i] = x

C6_StopStepOrder ==
  \A c \in Calls :
    (IsStop(c) /\ Acquired(c)) =>
      /\ trace[c] # <<>> /\ trace[c][1] = "stopping"
      /\ \A i \in 1..Len(trace[c]) : StopRank(trace[c][i]) > 0
      /\ \A i, j \in 1..Len(trace[c]) :
           i < j => StopRank(trace[c][i]) < StopRank(trace[c][j])
      /\ Has(c, "drained") => Has(c, "cancelAll")
      /\ Has(c, "domainStop") => Has(c, "clear")
      /\ (Has(c, "stop") \/ Has(c, "errorStopping")) => Has(c, "domainStop")

\* A Stop went through every step and the domain stop failed.
C6_Witness ==
  \E c \in Calls :
    trace[c] = <<"stopping", "cancelAll", "drained", "clear", "domainStop",
                 "errorStopping">>

----------------------------------------------------------------------------
\* C7.  A call rejected with Conflict has no side effects: the step in which
\* a call returns Conflict broadcasts nothing, spawns no task and leaves the
\* registry, the lock table and every task unchanged.
C7_ConflictNoSideEffects ==
  [][\A c \in Calls :
       (pc[c] = "idle" /\ Conflicted(c)') =>
         /\ trace'[c] = <<>>
         /\ UNCHANGED <<trace, registryVars, taskVars, progressVars, lock>>]_vars

\* A Start and a Stop were both rejected while a Start was in flight.
C7_Witness ==
  \E a, b, c \in Calls :
    /\ IsStart(a) /\ InFlight(a)
    /\ IsStart(b) /\ Conflicted(b)
    /\ IsStop(c) /\ Conflicted(c)
    /\ trace[a] = <<"starting">>

----------------------------------------------------------------------------
\* C8.  Every lifecycle call that acquired the lock has emitted exactly one
\* terminal broadcast when it has returned.
C8_OneTerminalEvent ==
  \A c \in Calls :
    (Acquired(c) /\ Returned(c)) => TerminalCount(c) = 1

----------------------------------------------------------------------------
\* C9.  Delayed error isolation: the delivery of a delayed error changes no
\* call's result, position or broadcasts; the error broadcasts of a Start
\* are, in order, one `error` broadcast of resource experiment/vm with id
\* name/VM per delivered DelayedVMError, and none for other errors.
IsVMError(e) == e[1] = "DelayedVMError"

RECURSIVE ExpectedErrBcast(_, _)
ExpectedErrBcast(n, es) ==
  IF es = <<>> THEN <<>>
  ELSE LET rest == ExpectedErrBcast(n, Tail(es)) IN
         IF IsVMError(Head(es))
           THEN <<[type |-> "experiment/vm", id |-> <<n, Head(es)[2]>>,
                   status |-> "error"]>> \o rest
           ELSE rest

C9_ErrBcastMatches ==
  \A c \in Calls : errBcast[c] = ExpectedErrBcast(NameOf(c), delivered[c])

C9_DeliveryIsolated ==
  (delivered' # delivered) => UNCHANGED <<ret, trace, pc, lock>>

C9_DelayedErrorIsolation ==
  []C9_ErrBcastMatches /\ [][C9_DeliveryIsolated]_vars

\* A Start returned its body and broadcast start; a DelayedVMError and an error
\* of another kind were delivered to its listener; one error broadcast was made.
C9_Witness ==
  \E c \in Calls :
    /\ Returned(c) /\ ret[c] = [body |-> "body", err |-> "nil"]
    /\ trace[c] = <<"starting", "start">>
    /\ delivered[c] = <<<<"other", "">>, <<"DelayedVMError", "vm1">>>>
    /\ errBcast[c] = <<[type |-> "experiment/vm", id |-> <<NameOf(c), "vm1">>,
                        status |-> "error"]>>

----------------------------------------------------------------------------
\* C10.  Start failure outcome: when experiment.Start returned an error, the
\* call never broadcasts `start`, never registers or schedules the periodic
\* app runner, and returns a non-nil error with a nil body after
\* broadcasting `errorStarting`.
C10_StartFailureOutcome ==
  \A c \in Calls :
    derr[c] = "err" =>
      /\ ~Has(c, "start")
      /\ pc[c] \in {"s_loop", "done"}
      /\ \A n \in Names : <<c, "apps">> \notin Range(cancelers[n])
      /\ \A n \in Names : waiters[n] # c
      /\ rpc[c] = "none" /\ wg[c] = 0
      /\ Returned(c) =>
           /\ trace[c][Len(trace[c])] = "errorStarting"
           /\ ret[c].body = "nil"
           /\ ret[c].err \notin {"nil", "pending"}

\* A Start whose domain start failed has returned.
C10_Witness ==
  \E c \in Calls :
    /\ derr[c] = "err" /\ Returned(c)
    /\ ret[c] = [body |-> "nil", err |-> "BadRequest"]

----------------------------------------------------------------------------
\* C11.  Stop failure outcome: in a Stop that found handles registered for
\* its name, every registered handle has been invoked once the cancel loop
\* is done, the registered WaitGroup is at zero once the wait is over, and
\* both registry entries are gone when experiment.Stop is called; when
\* experiment.Stop fails the call broadcasts `errorStopping` (never `stop`)
\* and returns a non-nil error with a nil body, and as long as no later call
\* has been issued the lock is Free and the registry entries stay gone.
DomainStopFailed(c) == IsStop(c) /\ Has(c, "errorStopping")

C11_StopFailureOutcome ==
  \A c \in Calls :
    (IsStop(c) /\ Acquired(c) /\ Has(c, "cancelAll")) =>
      LET n == NameOf(c) IN
        /\ pc[c] \in {"p_wait", "p_clear"} =>
             Range(cancelers[n]) \subseteq cancelled
        /\ (pc[c] = "p_clear" /\ waiters[n] # NoWG) =>
             (Has(c, "drained") /\ wg[waiters[n]] = 0)
        /\ pc[c] \in {"p_domain", "p_finish"} =>
             (cancelers[n] = <<>> /\ waiters[n] = NoWG)
        /\ DomainStopFailed(c) =>
             /\ Returned(c)
             /\ ~Has(c, "stop")
             /\ trace[c][Len(trace[c])] = "errorStopping"
             /\ trace[c][Len(trace[c]) - 1] = "domainStop"
             /\ ret[c].body = "nil" /\ ret[c].err = "BadRequest"
             /\ (\A d \in Calls : d > c => pc[d] = "idle") =>
                  /\ lock[n] = "Free"
                  /\ cancelers[n] = <<>> /\ waiters[n] = NoWG

\* A Stop on a name with two registered handles and a running app runner
\* cancelled both, waited for the runner, and the domain stop failed.
C11_Witness ==
  \E c, d \in Calls :
    /\ d < c /\ IsStart(d) /\ NameOf(d) = NameOf(c)
    /\ DomainStopFailed(c) /\ Returned(c)
    /\ Has(c, "cancelAll") /\ Has(c, "drained")
    /\ {<<d, "start">>, <<d, "apps">>} \subseteq cancelled
    /\ rpc[d] = "exited"
    /\ lock[NameOf(c)] = "Free"

----------------------------------------------------------------------------
\* C12.  Best-effort secondary scheduling: a Start whose domain start
\* succeeded and whose app.PeriodicallyRunApps failed goes on as one whose
\* scheduling succeeded: it never broadcasts `errorStarting`, and when it
\* has returned it has broadcast `start` last and returned the body with a
\* nil error, the only other outcome being the serialization failure that
\* a Start with successful scheduling has too.

\* app.PeriodicallyRunApps failed in call c: its handle was cancelled
\* (line 141) and no runner was started.
SchedulingFailed(c) ==
  /\ IsStart(c) /\ derr[c] = "nil"
  /\ <<c, "apps">> \in cancelled /\ rpc[c] = "none"

SchedulingSucceeded(c) == IsStart(c) /\ rpc[c] # "none"

StartSucceeded(c) ==
  /\ ret[c] = [body |-> "body", err |-> "nil"]
  /\ trace[c][Len(trace[c])] = "start"

SerializationFailed(c) ==
  /\ ret[c] = [body |-> "nil", err |-> "Internal"]
  /\ ~Has(c, "start")

C12_BestEffortScheduling ==
  \A c \in Calls :
    (SchedulingFailed(c) \/ SchedulingSucceeded(c)) =>
      /\ pc[c] \in {"s_marshal", "done"}
      /\ ~Has(c, "errorStarting")
      /\ Returned(c) => (StartSucceeded(c) \/ SerializationFailed(c))

\* A Start whose scheduling failed returned the body after `start`, and
\* nothing stayed registered for its name.
C12_Witness ==
  \E c \in Calls :
    /\ SchedulingFailed(c) /\ Returned(c) /\ StartSucceeded(c)
    /\ cancelers[NameOf(c)] = <<>> /\ waiters[NameOf(c)] = NoWG

----------------------------------------------------------------------------
\* C13.  A failed Start unregisters exactly the handle it added: the step
\* of lines 63-64 removes the handle of this call from cancelers[name] and
\* keeps every other handle and the waiters entry of the name, and when a
\* Start returns a failure its own handle is no longer registered.
WithoutHandle(hs, h) == SelectSeq(hs, LAMBDA x : x # h)

C13_FailedStartUnregistersOwn ==
  [][\A c \in Calls :
       /\ (gpc[c] = "g_cleanup" /\ gpc'[c] # "g_cleanup") =>
            /\ cancelers'[NameOf(c)] =
                 WithoutHandle(cancelers[NameOf(c)], <<c, "start">>)
            /\ waiters' = waiters
       /\ (IsStart(c) /\ InFlight(c) /\ Returned(c)'
             /\ ret'[c].err = "BadRequest") =>
            <<c, "start">> \notin Range(cancelers'[NameOf(c)])]_vars

----------------------------------------------------------------------------
\* C14.  Stop drains every background task: when stopExperiment invokes
\* experiment.Stop no log drainer, delayed-error listener or periodic app
\* runner started for the name is still running, and no delayed-error
\* broadcast of a Start is emitted after a later Stop of the same name that
\* acquired the lock has returned.
TaskRunning(d) ==
  lpc[d] = "listening" \/ dpc[d] = "running" \/ rpc[d] = "running"

C14_StopDrainsEveryTask ==
  [][/\ \A c \in Calls :
          (pc[c] = "p_domain" /\ pc'[c] # "p_domain") =>
            \A d \in Calls : NameOf(d) = NameOf(c) => ~TaskRunning(d)
     /\ \A d \in Calls :
          errBcast'[d] # errBcast[d] =>
            ~\E c \in Calls :
               /\ c > d /\ IsStop(c) /\ NameOf(c) = NameOf(d)
               /\ Acquired(c) /\ Returned(c)]_vars

----------------------------------------------------------------------------
\* C15.  The registry is free of data races: no two threads whose next
\* steps both access the cancelers/waiters maps, one of them writing, are
\* ready to run at the same time.  (The maps are bare Go maps; nothing
\* orders the steps of calls on different names.)

Threads == Calls \X {"main", "go"}

\* The access to the maps that the next step of a thread makes: the
\* calling thread writes at lines 134-138 and 221-222 and reads at lines
\* 211-215, the goroutine writes at lines 55-56 and 64.
RegistryAccess(t) ==
  LET c == t[1] IN
    IF t[2] = "main"
      THEN CASE pc[c] \in {"s_register", "p_clear"} -> "write"
             [] pc[c] = "p_cancel" -> "read"
             [] OTHER -> "none"
      ELSE IF gpc[c] \in {"g_register", "g_cleanup"} THEN "write" ELSE "none"

RegistryRace(t, u) ==
  /\ t # u
  /\ RegistryAccess(t) # "none" /\ RegistryAccess(u) # "none"
  /\ "write" \in {RegistryAccess(t), RegistryAccess(u)}

C15_RegistryRaceFree == \A t, u \in Threads : ~RegistryRace(t, u)

----------------------------------------------------------------------------
\* C16.  Start terminates despite probe failures: under FairSpec every
\* startExperiment call that acquired the lock eventually returns, with a
\* result; a poll whose probe failed broadcasts nothing and leaves the call
\* in its loop; and a Start returns a failure only for an error of
\* experiment.Start or experiment.Get or of the marshaler, never for an
\* error of the probe.
ProbeErrorSkipped ==
  \A c \in Calls :
    probeErrs'[c] # probeErrs[c] =>
      /\ trace' = trace /\ ret' = ret /\ lock' = lock
      /\ pc[c] = "s_loop" /\ pc' = pc
      /\ emitted' = emitted /\ progress' = progress

StartResultOf(c) ==
  IF derr[c] = "err" \/ smsg[c] = "err" \/ Has(c, "errorStarting")
    THEN {[body |-> "nil", err |-> "BadRequest"]}
    ELSE {[body |-> "body", err |-> "nil"], [body |-> "nil", err |-> "Internal"]}

StartReturnsResult ==
  \A c \in Calls :
    (IsStart(c) /\ Acquired(c) /\ Returned(c)) =>
      ret[c] \in StartResultOf(c)

C16_StartTerminates ==
  /\ \A c \in Calls : (IsStart(c) /\ Acquired(c)) ~> Returned(c)
  /\ []StartReturnsResult
  /\ [][ProbeErrorSkipped]_vars

\* A Start whose probe failed twice and succeeded once returned the body.
C16_Witness ==
  \E c \in Calls :
    /\ IsStart(c) /\ Returned(c)
    /\ probeErrs[c] = 2 /\ Len(readings[c]) = 1
    /\ ret[c] = [body |-> "body", err |-> "nil"]
    /\ trace[c][Len(trace[c])] = "start"

----------------------------------------------------------------------------
\* C17.  Stop terminates when tasks honor cancellation: a stopExperiment
\* call blocked in wg.Wait() waits only for tracked tasks whose
\* cancellation handle has been invoked (which then exit, so that the call
\* goes on to experiment.Stop, returns and frees the lock).

\* The Stop call c is blocked at line 217 on a task whose handle nobody
\* has invoked; the lock of the name is held by c, so no other Stop can
\* invoke it either.
StopStuck(c) ==
  /\ IsStop(c) /\ pc[c] = "p_wait"
  /\ LET w == waiters[NameOf(c)] IN
       /\ wg[w] > 0
       /\ rpc[w] = "running"
       /\ <<w, "apps">> \notin cancelled

C17_StopTerminates == \A c \in Calls : ~StopStuck(c)

----------------------------------------------------------------------------
\* C18.  A failed Start leaves no background work behind: once a Start
\* whose experiment.Start returned an error has returned, its goroutine is
\* not blocked in a send on the status channel, and no task of the call is
\* running.

\* The goroutine of call c is blocked in the send of line 113 and the only
\* receiver of the channel, the calling thread of c, has returned.
GoroutineBlockedForever(c) == gpc[c] = "g_send" /\ Returned(c)

C18_FailedStartLeavesNothing ==
  \A c \in Calls :
    (IsStart(c) /\ Returned(c) /\ derr[c] = "err") =>
      ~GoroutineBlockedForever(c) /\ ~TaskRunning(c)

----------------------------------------------------------------------------
\* C19.  Registry mutations happen under the lock of the name: every step
\* that changes cancelers[n] or waiters[n] is a step of the calling thread
\* or of the goroutine of a call for n that acquired the lock and has not
\* returned, and the lock of n is held with the intent of that call before
\* and after the step.
IntentOf(c) == IF IsStart(c) THEN "LockedForStarting" ELSE "LockedForStopping"

\* The step is one of call c: its calling thread or its goroutine moves.
StepOf(c) == pc'[c] # pc[c] \/ gpc'[c] # gpc[c]

C19_MutationUnderLock ==
  [][\A n \in Names :
       (cancelers'[n] # cancelers[n] \/ waiters'[n] # waiters[n]) =>
         \E c \in Calls :
           /\ StepOf(c) /\ NameOf(c) = n
           /\ Acquired(c) /\ InFlight(c) /\ InFlight(c)'
           /\ lock[n] = IntentOf(c) /\ lock'[n] = IntentOf(c)]_vars

\* The goroutine of a Start and the calling threads of a Start and of a
\* Stop have all written the registry of one name, the Stop still holding
\* the lock.
C19_Witness ==
  \E c, d \in Calls :
    /\ c < d /\ IsStart(c) /\ IsStop(d) /\ NameOf(c) = NameOf(d)
    /\ Returned(c) /\ ret[c].err = "nil" /\ rpc[c] # "none"
    /\ {<<c, "start">>, <<c, "apps">>} \subseteq cancelled
    /\ pc[d] = "p_domain" /\ Has(d, "clear")
    /\ cancelers[NameOf(d)] = <<>> /\ waiters[NameOf(d)] = NoWG
    /\ lock[NameOf(d)] = "LockedForStopping"

----------------------------------------------------------------------------
\* C20.  A rejected call never releases another operation's lock: after a
\* call has returned Conflict, the lock of its name is held with the intent
\* of the operation in flight for that name for as long as that operation
\* has not returned.
C20_RejectedKeepsLock ==
  \A c, d \in Calls :
    (Conflicted(c) /\ Returned(c) /\ d < c /\ NameOf(d) = NameOf(c)
       /\ InFlight(d)) =>
      lock[NameOf(d)] = IntentOf(d)

\* A Start and then a Stop were rejected while a Stop was in flight, which
\* still holds the lock.
C20_Witness ==
  \E b, c, d \in Calls :
    /\ d < c /\ c < b
    /\ IsStop(d) /\ InFlight(d) /\ pc[d] = "p_domain"
    /\ IsStart(c) /\ Conflicted(c) /\ Returned(c) /\ NameOf(c) = NameOf(d)
    /\ IsStop(b) /\ Conflicted(b) /\ Returned(b) /\ NameOf(b) = NameOf(d)
    /\ lock[NameOf(d)] = "LockedForStopping"

====
